---- MODULE Spec2Model ----
(***************************************************************************)
(* Model of the two timer utilities of the repository:                     *)
(*   - src/MTU/mock_test_timer_gui.py : the per-question timers of the     *)
(*     mock-test GUI and its session log (text file);                      *)
(*   - src/study_timer.py : the session CSV of the terminal study timer    *)
(*     (ensure_csv, append_session) and compute_and_print_stats.           *)
(* The two programs do not interact; the variable `program` says which of  *)
(* them a behaviour is a run of.                                           *)
(***************************************************************************)
EXTENDS Integers, Sequences, FiniteSets, TLC

VARIABLES
    program,               \* "gui" or "terminal"
    \* ---- mock_test_timer_gui.py ----
    question_data,         \* self.question_data: q -> record of the fields the timers use
    current_question_num,  \* self.current_question_num
    pending,               \* q -> number of run_question_timer callbacks scheduled by root.after
    text_file,             \* content of self.text_file: the sequence of blocks written so far
    \* history of the current run of each question timer (observation only)
    halted_by,             \* q -> "none", "resumed" (running again after a pause), or how the
                           \*      timer was last halted: "pause", "stop", "pause_stop"
    fresh_run,             \* q -> the current/last run started from elapsed 0
    run_ticks,             \* q -> scheduled ticks that advanced the timer in a fresh run
    run_beeps,             \* q -> calls of winsound.Beep since the last start
    \* the session of the GUI
    screen,                \* what the window shows: "test", "setup" or "quit"
    session_timer_running, \* self.session_timer_running
    session_elapsed_seconds, \* self.session_elapsed_seconds
    session_pending,       \* run_session_timer callbacks scheduled by root.after
    question_records,      \* self.question_records
    save_dialog,           \* message box of the last save_all_questions: "none",
                           \* "success" or "error"
    gui_audio,             \* what winsound.Beep does in this run: "works" or "raises"
    session_count,         \* sessions started so far (observation only)
    \* ---- study_timer.py ----
    csv_file,              \* content of the session CSV: Absent or the sequence of its rows
    stats,                 \* what compute_and_print_stats last reported (NoStats before)
    last_op,               \* name of the last terminal operation
    \* ---- study_timer.py : interactive_loop ----
    pc,                    \* where the main thread is: "loop", "prompt", "done", "crashed"
                           \* ("off": interactive_loop is not part of the behaviour)
    session,               \* the Session object
    session_start_wall,    \* time of the first start, None before
    alarm_active,          \* the running timer is overdue and beeping
    last_beep_time,        \* time of the last beep of the current alarm
    iq,                    \* the input queue: lines put by the reader, not yet taken
    clock,                 \* time.monotonic(), in whole seconds
    sound,                 \* what the last do_beep emitted: "silent", "beep", "bell"
    entered,               \* every line the user has entered, in order (observation only)
    handled,               \* each line taken from the queue and what it was handled as
    prompt,                \* the call of prompt_int: its default and its outcome so far
    alarms                 \* recorded questions whose alarm was activated (observation only)

loopVars == <<pc, session, session_start_wall, alarm_active, last_beep_time, iq, clock,
              sound, entered, handled, prompt, alarms>>

sessVars == <<screen, session_timer_running, session_elapsed_seconds, session_pending,
              question_records, save_dialog, gui_audio, session_count>>

vars == <<program, question_data, current_question_num, pending, text_file,
          halted_by, fresh_run, run_ticks, run_beeps, sessVars, csv_file, stats,
          last_op, loopVars>>

guiVars == <<question_data, current_question_num, pending, text_file,
             halted_by, fresh_run, run_ticks, run_beeps, sessVars>>

termVars == <<csv_file, stats, last_op, loopVars>>

(***************************************************************************)
(* Bounds of the model                                                     *)
(***************************************************************************)
NumQuestions == 2      \* question blocks modelled (the GUI builds 75)
OverrunSeconds == 2    \* seconds of question time explored beyond the limit
MaxSideSeconds == 1    \* seconds explored on questions other than the longest-timed one
MaxPending == 2        \* scheduled callbacks per question explored
MaxSaves == 2          \* Save All presses explored

Questions == 1..NumQuestions

RECURSIVE SumTo(_, _)
SumTo(f, n) == IF n = 0 THEN 0 ELSE f[n] + SumTo(f, n - 1)

(***************************************************************************)
(* mock_test_timer_gui.py : session configuration                          *)
(***************************************************************************)
max_time_per_question == 1     \* minutes; the smallest value the setup Spinbox offers
SecondsPerMinute == 60

\* seconds of question time explored (sum over all questions)
MaxSeconds == max_time_per_question * SecondsPerMinute + OverrunSeconds

\* elapsed_minutes > max_minutes, with elapsed_minutes = elapsed_seconds / 60
ExceededGE(elapsed) == elapsed >= max_time_per_question * SecondsPerMinute
Exceeded(elapsed) == elapsed > max_time_per_question * SecondsPerMinute

\* create_question_block: the initial entry of question_data
NewQuestion ==
    [timer_running |-> FALSE, elapsed_seconds |-> 0, beep_played |-> FALSE,
     timer_label_fg |-> "black", time_var |-> <<"0">>]

\* update_timer_display: red when exceeded, black otherwise
TimerColor(elapsed) == IF Exceeded(elapsed) THEN "red" ELSE "black"

UpdateTimerDisplay(qd, q) ==
    [qd EXCEPT ![q].timer_label_fg = TimerColor(qd[q].elapsed_seconds)]

\* run_question_timer: does this call play the beep?
BeepsAlways(qd, q) ==
    qd[q].timer_running /\ Exceeded(qd[q].elapsed_seconds + 1)
Beeps(qd, q) ==
    /\ qd[q].timer_running
    /\ Exceeded(qd[q].elapsed_seconds + 1)
    /\ ~qd[q].beep_played

\* run_question_timer: the effect of one call on question_data
RunUnguarded(qd, q) ==
    UpdateTimerDisplay(
        [qd EXCEPT ![q].elapsed_seconds = @ + 1,
                   ![q].beep_played = @ \/ Beeps(qd, q)], q)
RunQuestionTimerData(qd, q) ==
    IF qd[q].timer_running
    THEN UpdateTimerDisplay(
             [qd EXCEPT ![q].elapsed_seconds = @ + 1,
                        ![q].beep_played = @ \/ Beeps(qd, q)], q)
    ELSE qd

\* "try: winsound.Beep(1000, 500) / except: pass": does the call of
\* run_question_timer go on after the beep?
BeepUncaught(audio) == audio = "works"
BeepCaught(audio) == TRUE

Completes(qd, q, audio) == ~Beeps(qd, q) \/ BeepCaught(audio)

\* run_question_timer left by an exception of the beep: the count and
\* beep_played are already set, the display is not updated
RunAborted(qd, q) ==
    [qd EXCEPT ![q].elapsed_seconds = @ + 1, ![q].beep_played = TRUE]

\* run_question_timer with the audio as it is
RunQuestionTimer(qd, q, audio) ==
    IF Completes(qd, q, audio) THEN RunQuestionTimerData(qd, q) ELSE RunAborted(qd, q)

\* start_question_timer, up to its call of run_question_timer
StartKeepsBeep(qd, q) ==
    IF ~qd[q].timer_running
    THEN [qd EXCEPT ![q].timer_running = TRUE]
    ELSE qd
ArmTimer(qd, q) ==
    IF ~qd[q].timer_running
    THEN [qd EXCEPT ![q].timer_running = TRUE, ![q].beep_played = FALSE]
    ELSE qd

TotalSeconds(qd) == SumTo([q \in Questions |-> qd[q].elapsed_seconds], NumQuestions)

\* The part of the session the model explores: one more second on question q
\* keeps the total within MaxSeconds and the time off the longest-timed
\* question within MaxSideSeconds.
Room(qd, q) ==
    /\ TotalSeconds(qd) < MaxSeconds
    /\ \E m \in Questions :
          TotalSeconds(qd) + 1
            - (IF m = q THEN qd[m].elapsed_seconds + 1 ELSE qd[m].elapsed_seconds)
          <= MaxSideSeconds

(***************************************************************************)
(* Effect of start_question_timer(q) on the variables it touches; shared   *)
(* by the Start button and by stop_question_timer's auto-start.            *)
(***************************************************************************)
StartScheduled(qd, q) == ArmTimer(qd, q)
StartQuestionData(qd, q) == RunQuestionTimer(ArmTimer(qd, q), q, gui_audio)

StartEffect(qd, q) ==
    IF qd[q].timer_running
    THEN /\ question_data' = qd
         /\ UNCHANGED <<pending, fresh_run, run_ticks, run_beeps>>
    ELSE /\ question_data' = StartQuestionData(qd, q)
         /\ pending' = [pending EXCEPT
                           ![q] = IF Completes(ArmTimer(qd, q), q, gui_audio)
                                  THEN @ + 1 ELSE @]
         /\ fresh_run' = [fresh_run EXCEPT ![q] = (qd[q].elapsed_seconds = 0)]
         /\ run_ticks' = [run_ticks EXCEPT ![q] = 0]
         /\ run_beeps' = [run_beeps EXCEPT
                             ![q] = IF Beeps(ArmTimer(qd, q), q) THEN 1 ELSE 0]

StartHalted(h, qd, q) ==
    IF qd[q].timer_running THEN h
    ELSE [h EXCEPT ![q] = IF @ = "pause" THEN "resumed" ELSE "none"]

CanStart(qd, q) ==
    qd[q].timer_running \/ (pending[q] < MaxPending /\ Room(qd, q))

\* the Start button of a question block
StartQuestionTimer(q) ==
    /\ program = "gui"
    /\ screen = "test"
    /\ CanStart(question_data, q)
    /\ StartEffect(question_data, q)
    /\ halted_by' = StartHalted(halted_by, question_data, q)
    /\ UNCHANGED <<program, current_question_num, text_file, sessVars, termVars>>

\* the Pause button of a question block or of the floating window
PauseData(qd, q) == [qd EXCEPT ![q].timer_running = FALSE]

PauseQuestionTimer(q) ==
    /\ program = "gui"
    /\ screen = "test"
    /\ question_data' = PauseData(question_data, q)
    /\ halted_by' = [halted_by EXCEPT
                        ![q] = IF question_data[q].timer_running THEN "pause" ELSE @]
    /\ UNCHANGED <<program, current_question_num, pending, text_file,
                   fresh_run, run_ticks, run_beeps, sessVars, termVars>>

\* the Stop button: stops q, then shows and starts the next question
StopKeepsRunning(qd, q) == UpdateTimerDisplay(qd, q)
StopData(qd, q) == UpdateTimerDisplay([qd EXCEPT ![q].timer_running = FALSE], q)

StopHalted(h, qd, q) ==
    [h EXCEPT ![q] = IF qd[q].timer_running THEN "stop"
                     ELSE IF @ = "pause" THEN "pause_stop" ELSE @]

StopQuestionTimer(q) ==
    LET stopped == StopData(question_data, q)
        halted == StopHalted(halted_by, question_data, q)
        next_question == q + 1
    IN  /\ program = "gui"
        /\ screen = "test"
        /\ IF next_question <= NumQuestions
           THEN /\ CanStart(stopped, next_question)
                /\ current_question_num' = next_question
                /\ StartEffect(stopped, next_question)
                /\ halted_by' = StartHalted(halted, stopped, next_question)
           ELSE /\ question_data' = stopped
                /\ halted_by' = halted
                /\ UNCHANGED <<current_question_num, pending, fresh_run,
                               run_ticks, run_beeps>>
        /\ UNCHANGED <<program, text_file, sessVars, termVars>>

\* a callback scheduled by root.after(1000, self.run_question_timer, q) fires
Tick(q) ==
    /\ program = "gui"
    /\ screen = "test"
    /\ pending[q] > 0
    /\ IF question_data[q].timer_running
       THEN /\ Room(question_data, q)
            /\ question_data' = RunQuestionTimer(question_data, q, gui_audio)
            /\ run_ticks' = [run_ticks EXCEPT ![q] = IF fresh_run[q] THEN @ + 1 ELSE @]
            /\ run_beeps' = [run_beeps EXCEPT
                                ![q] = IF Beeps(question_data, q) THEN @ + 1 ELSE @]
            /\ pending' = [pending EXCEPT
                              ![q] = IF Completes(question_data, q, gui_audio)
                                     THEN @ ELSE @ - 1]
       ELSE /\ question_data' = RunQuestionTimer(question_data, q, gui_audio)
            /\ pending' = [pending EXCEPT ![q] = @ - 1]
            /\ UNCHANGED <<run_ticks, run_beeps>>
    /\ UNCHANGED <<program, current_question_num, text_file, halted_by, fresh_run,
                   sessVars, termVars>>

(***************************************************************************)
(* mock_test_timer_gui.py : the session log                                *)
(***************************************************************************)
Block(kind, q, time_spent, beep_alert) ==
    [kind |-> kind, q |-> q, time_spent |-> time_spent, beep_alert |-> beep_alert]

\* setup_text_file: the file is opened with 'w' and the session header written
LogHeader == <<Block("header", 0, <<>>, "")>>

\* save_all_questions: the text written for question q
\* time_var.get() or "0"
TimeSpent(time_var) == IF time_var = <<>> THEN <<"0">> ELSE time_var

QuestionEntry(qd, q) ==
    Block("question", q, TimeSpent(qd[q].time_var),
          IF qd[q].beep_played THEN "Yes" ELSE "No")

SessionEnded == Block("session_ended", 0, <<>>, "")

\* save_all_questions: everything one successful call writes
SaveText(qd) == [i \in 1..NumQuestions |-> QuestionEntry(qd, i)] \o <<SessionEnded>>

\* open(self.text_file, 'a') and the writes
SavedOverwrite(file, qd) == LogHeader \o SaveText(qd)
Saved(file, qd) == file \o SaveText(qd)

SavesIn(file) == Cardinality({i \in 1..Len(file) : file[i].kind = "session_ended"})

\* save_all_questions: the message box it ends with
SaveDialog(opened) == IF opened THEN "success" ELSE "error"

\* the Save All button; opened = FALSE is open() raising, caught by the handler
SaveAllQuestions(opened) ==
    /\ program = "gui"
    /\ screen = "test"
    /\ SavesIn(text_file) < MaxSaves
    /\ text_file' = IF opened THEN Saved(text_file, question_data) ELSE text_file
    /\ save_dialog' = SaveDialog(opened)
    /\ UNCHANGED <<program, question_data, current_question_num, pending, halted_by,
                   fresh_run, run_ticks, run_beeps, screen, session_timer_running,
                   session_elapsed_seconds, session_pending, question_records,
                   gui_audio, session_count, termVars>>

\* what the user may type into the "Time (min)" entry of a question block
TypedTimes == {<<>>, <<"1">>}

\* the user edits the "Time (min)" entry of question q
EditTime(q, typed) ==
    /\ program = "gui"
    /\ screen = "test"
    /\ question_data' = [question_data EXCEPT ![q].time_var = typed]
    /\ UNCHANGED <<program, current_question_num, pending, text_file, halted_by,
                   fresh_run, run_ticks, run_beeps, sessVars, termVars>>

(***************************************************************************)
(* mock_test_timer_gui.py : the session timer and the ends of a session    *)
(***************************************************************************)
MaxSessions == 2       \* sessions started in one run of the GUI

total_duration_minutes == 1    \* the smallest value of the custom duration Spinbox

\* "self.session_elapsed_seconds >= self.current_session.total_duration_minutes * 60"
SessionTimeUpLate(elapsed) == elapsed > total_duration_minutes * SecondsPerMinute
SessionTimeUp(elapsed) == elapsed >= total_duration_minutes * SecondsPerMinute

\* the last two message boxes of end_test_automatically and end_session: a new
\* session (show_initial_setup) or root.quit()
NextScreen(again) == IF again THEN "setup" ELSE "quit"

\* a callback scheduled by root.after(1000, self.run_session_timer) fires; when
\* the time is up it goes on into end_test_automatically
SessionTick(opened, again) ==
    /\ program = "gui"
    /\ screen # "quit"
    /\ session_pending > 0
    /\ IF ~session_timer_running
       THEN /\ session_pending' = session_pending - 1
            /\ UNCHANGED <<session_elapsed_seconds, session_timer_running, text_file,
                           save_dialog, screen>>
       ELSE /\ session_elapsed_seconds' = session_elapsed_seconds + 1
            /\ IF SessionTimeUp(session_elapsed_seconds + 1)
               THEN /\ session_timer_running' = FALSE
                    /\ session_pending' = session_pending - 1
                    /\ text_file' = IF opened THEN Saved(text_file, question_data)
                                    ELSE text_file
                    /\ save_dialog' = SaveDialog(opened)
                    /\ screen' = NextScreen(again)
               ELSE UNCHANGED <<session_timer_running, session_pending, text_file,
                               save_dialog, screen>>
    /\ UNCHANGED <<program, question_data, current_question_num, pending, halted_by,
                   fresh_run, run_ticks, run_beeps, question_records, gui_audio,
                   session_count, termVars>>

\* the End Session button; confirm and again are the user's answers to the two
\* questions it asks
EndSession(confirm, opened, again) ==
    /\ program = "gui"
    /\ screen = "test"
    /\ session_timer_running' = FALSE
    /\ IF confirm
       THEN /\ text_file' = IF opened THEN Saved(text_file, question_data) ELSE text_file
            /\ save_dialog' = SaveDialog(opened)
            /\ screen' = NextScreen(again)
       ELSE UNCHANGED <<text_file, save_dialog, screen>>
    /\ UNCHANGED <<program, question_data, current_question_num, pending, halted_by,
                   fresh_run, run_ticks, run_beeps, session_elapsed_seconds,
                   session_pending, question_records, gui_audio, session_count,
                   termVars>>

\* START TEST SESSION on the setup screen: start_session with a description
\* entered.  The session timer is started (its first call of
\* run_session_timer counts at once) and the question blocks are rebuilt.
StartSession ==
    /\ program = "gui"
    /\ screen = "setup"
    /\ session_count < MaxSessions
    /\ \A q \in Questions : pending[q] = 0
    /\ text_file' = LogHeader
    /\ session_elapsed_seconds' = 1
    /\ session_timer_running' = TRUE
    /\ session_pending' = session_pending + 1
    /\ question_data' = [q \in Questions |-> NewQuestion]
    /\ screen' = "test"
    /\ save_dialog' = "none"
    /\ session_count' = session_count + 1
    /\ halted_by' = [q \in Questions |-> "none"]
    /\ fresh_run' = [q \in Questions |-> FALSE]
    /\ run_ticks' = [q \in Questions |-> 0]
    /\ run_beeps' = [q \in Questions |-> 0]
    /\ UNCHANGED <<program, current_question_num, pending, question_records, gui_audio,
                   termVars>>

(***************************************************************************)
(* study_timer.py : text of the CSV fields.  A field is the sequence of    *)
(* its characters; a column name is a single token.                        *)
(***************************************************************************)
DigitChars == <<"0", "1", "2", "3", "4", "5", "6", "7", "8", "9">>

IsDigit(c) == \E i \in 1..10 : DigitChars[i] = c
DigitValue(c) == (CHOOSE i \in 1..10 : DigitChars[i] = c) - 1

\* str(int(d))
RECURSIVE Str(_)
Str(n) ==
    IF n < 0 THEN <<"-">> \o Str(-n)
    ELSE IF n < 10 THEN <<DigitChars[n + 1]>>
    ELSE Str(n \div 10) \o <<DigitChars[(n % 10) + 1]>>

\* str.strip(): leading and trailing blanks removed
RECURSIVE LStrip(_)
LStrip(s) == IF s # <<>> /\ Head(s) = " " THEN LStrip(Tail(s)) ELSE s
RECURSIVE RStrip(_)
RStrip(s) ==
    IF s # <<>> /\ s[Len(s)] = " " THEN RStrip(SubSeq(s, 1, Len(s) - 1)) ELSE s
Strip(s) == RStrip(LStrip(s))

Unsigned(t) == IF t # <<>> /\ Head(t) \in {"-", "+"} THEN Tail(t) ELSE t

\* int(s) succeeds: blanks around, an optional sign, then digits only
IsIntText(s) ==
    LET body == Unsigned(Strip(s))
    IN  body # <<>> /\ \A i \in 1..Len(body) : IsDigit(body[i])

RECURSIVE DigitsValue(_)
DigitsValue(ds) ==
    IF ds = <<>> THEN 0
    ELSE 10 * DigitsValue(SubSeq(ds, 1, Len(ds) - 1)) + DigitValue(ds[Len(ds)])

\* int(s), for a text on which it succeeds
IntOf(s) ==
    LET t == Strip(s)
    IN  IF Head(t) = "-" THEN 0 - DigitsValue(Unsigned(t)) ELSE DigitsValue(Unsigned(t))

\* sep.join(pieces)
RECURSIVE Join(_, _)
Join(pieces, sep) ==
    IF pieces = <<>> THEN <<>>
    ELSE IF Len(pieces) = 1 THEN pieces[1]
    ELSE pieces[1] \o <<sep>> \o Join(Tail(pieces), sep)

\* s.split(sep): always at least one piece
RECURSIVE Split(_, _)
Split(s, sep) ==
    IF \A i \in 1..Len(s) : s[i] # sep THEN <<s>>
    ELSE LET k == CHOOSE i \in 1..Len(s) :
                      s[i] = sep /\ \A j \in 1..(i - 1) : s[j] # sep
         IN  <<SubSeq(s, 1, k - 1)>> \o Split(SubSeq(s, k + 1, Len(s)), sep)

(***************************************************************************)
(* study_timer.py : the session CSV                                        *)
(***************************************************************************)
\* a path: whether the file exists, and its rows when it does
Absent == [exists |-> FALSE, rows |-> <<>>]
File(rows) == [exists |-> TRUE, rows |-> rows]

CSV_HEADERS ==
    << <<"datetime">>, <<"session_wall_seconds">>, <<"questions_started">>,
       <<"questions_attempted">>, <<"questions_correct">>,
       <<"per_question_durations_seconds">> >>

\* ensure_csv: the file after the call
EnsureCsvAlways(file) == File(<<CSV_HEADERS>>)
EnsureCsvFile(file) == IF ~file.exists THEN File(<<CSV_HEADERS>>) ELSE file

\* append_session: the row written
SessionRow(wall_seconds, started, attempted, correct, durations) ==
    << <<"now">>, Str(wall_seconds), Str(started), Str(attempted), Str(correct),
       Join([i \in 1..Len(durations) |-> Str(durations[i])], ";") >>

\* append_session: path.open("a") creates a missing file, then one row is written
AppendTruncating(file, row) == File(<<row>>)
AppendRow(file, row) == File(file.rows \o <<row>>)

(***************************************************************************)
(* study_timer.py : compute_and_print_stats                                *)
(***************************************************************************)
\* csv.DictReader: the text of column `name` in `row`; <<>> when the column is
\* missing from the header or from the row (None and "" are both falsy)
FieldText(fieldnames, row, name) ==
    LET at == {i \in 1..Len(fieldnames) : fieldnames[i] = name}
    IN  IF at = {} THEN <<>>
        ELSE LET i == CHOOSE k \in at : \A j \in at : j <= k
             IN  IF i <= Len(row) THEN row[i] ELSE <<>>

\* int(row.get(name, "0") or 0)
IntFieldOk(text) == text = <<>> \/ IsIntText(text)
IntField(text) == IF text = <<>> THEN 0 ELSE IntOf(text)

\* [int(x) for x in durations_field.split(";") if x.strip()]
IsBlank(x) == Strip(x) = <<>>
NotBlank(x) == ~IsBlank(x)
DurationPieces(text) == SelectSeq(Split(text, ";"), NotBlank)
DurationsOk(text) ==
    LET ps == DurationPieces(text) IN \A i \in 1..Len(ps) : IsIntText(ps[i])
Durations(text) ==
    LET ps == DurationPieces(text) IN [i \in 1..Len(ps) |-> IntOf(ps[i])]

\* the body of the try block for one row
ParseRow(fieldnames, row) ==
    LET a == FieldText(fieldnames, row, <<"questions_attempted">>)
        c == FieldText(fieldnames, row, <<"questions_correct">>)
        d == FieldText(fieldnames, row, <<"per_question_durations_seconds">>)
        ok == IntFieldOk(a) /\ IntFieldOk(c) /\ DurationsOk(d)
    IN  [ok |-> ok,
         attempted_ok |-> IntFieldOk(a),
         date |-> FieldText(fieldnames, row, <<"datetime">>),
         attempted |-> IF IntFieldOk(a) THEN IntField(a) ELSE 0,
         correct |-> IF IntFieldOk(c) THEN IntField(c) ELSE 0,
         durations |-> IF ok THEN Durations(d) ELSE <<>>]

\* does the row reach sessions.append and the totals?
RowCountsPartial(parsed) == parsed.attempted_ok
RowCounts(parsed) == parsed.ok

\* csv.DictReader: the first row is the header, blank lines are skipped
NotEmptyRow(row) == row # <<>>
DataRows(file) ==
    LET rows == SelectSeq(file, NotEmptyRow)
    IN  IF rows = <<>> THEN <<>> ELSE Tail(rows)
FieldNames(file) ==
    LET rows == SelectSeq(file, NotEmptyRow)
    IN  IF rows = <<>> THEN <<>> ELSE Head(rows)

ParsedRows(file) ==
    LET rows == DataRows(file)
    IN  [i \in 1..Len(rows) |-> ParseRow(FieldNames(file), rows[i])]

Sessions(file) == SelectSeq(ParsedRows(file), RowCounts)

RECURSIVE SumSeq(_)
SumSeq(xs) == IF xs = <<>> THEN 0 ELSE Head(xs) + SumSeq(Tail(xs))

RECURSIVE Flatten(_)
Flatten(xss) == IF xss = <<>> THEN <<>> ELSE Head(xss) \o Flatten(Tail(xss))

MinOfFirst(xs) == xs[1]
MinOf(xs) == CHOOSE m \in {xs[i] : i \in 1..Len(xs)} : \A i \in 1..Len(xs) : m <= xs[i]
MaxOf(xs) == CHOOSE m \in {xs[i] : i \in 1..Len(xs)} : \A i \in 1..Len(xs) : m >= xs[i]

\* f"{num / den:.1f}" in tenths: the nearest tenth, a tie going to the even one
\* (exact whenever num / den is a binary fraction)
Tenths(num, den) ==
    LET up == (20 * num + den) \div (2 * den)
        tie == (20 * num + den) % (2 * den) = 0
    IN  IF tie /\ up % 2 = 1 THEN up - 1 ELSE up

DEFAULT_DURATION_SECONDS == 240

\* what the function reports; status "error" is an uncaught exception
Report(status) ==
    [status |-> status, num_sessions |-> 0, total_attempted |-> 0, total_correct |-> 0,
     accuracy_na |-> FALSE, accuracy |-> 0,
     durations_reported |-> FALSE, all_durations |-> <<>>, sum_durations |-> 0,
     avg_dur |-> 0, fastest |-> 0, slowest |-> 0, late_total |-> 0,
     session_lines |-> <<>>]

NoStats == Report("none")

\* "if total_attempted > 0:"
AnyAttemptedAlways(total_attempted) == TRUE
AnyAttempted(total_attempted) == total_attempted > 0

\* "if all_durations:"
AnyDurationsAlways(all_durations) == TRUE
AnyDurations(all_durations) == all_durations # <<>>

\* "if not csv_path.exists(): ... return"
NoCsvNever(file) == FALSE
NoCsv(file) == ~file.exists

\* "acc = (correct / attempted * 100) if attempted > 0 else None"
SessionAttempted(attempted) == attempted > 0

\* sessions[-10:]
RecentSessions == 10
LastSessions(sessions) ==
    IF Len(sessions) <= RecentSessions THEN sessions
    ELSE SubSeq(sessions, Len(sessions) - RecentSessions + 1, Len(sessions))

\* reversed(xs)
Reversed(xs) == [i \in 1..Len(xs) |-> xs[Len(xs) + 1 - i]]

\* one line of the per-session accuracy trend
SessionLine(entry) ==
    [date |-> entry.date, attempted |-> entry.attempted,
     correct |-> entry.correct,
     acc_na |-> ~SessionAttempted(entry.attempted),
     acc |-> IF SessionAttempted(entry.attempted) /\ entry.attempted # 0
             THEN Tenths(entry.correct * 100, entry.attempted) ELSE 0]

SessionLines(sessions) ==
    LET shown == Reversed(LastSessions(sessions))
    IN  [i \in 1..Len(shown) |-> SessionLine(shown[i])]

StatsOf(sessions) ==
    LET all_durations == Flatten([i \in 1..Len(sessions) |-> sessions[i].durations])
        total_attempted == SumSeq([i \in 1..Len(sessions) |-> sessions[i].attempted])
        total_correct == SumSeq([i \in 1..Len(sessions) |-> sessions[i].correct])
        with_accuracy == AnyAttempted(total_attempted)
        with_durations == AnyDurations(all_durations)
    IN  IF \/ with_accuracy /\ total_attempted = 0       \* ZeroDivisionError
           \/ with_durations /\ all_durations = <<>>     \* ZeroDivisionError
           \/ \E i \in 1..Len(sessions) :                \* ZeroDivisionError
                 /\ i > Len(sessions) - RecentSessions
                 /\ SessionAttempted(sessions[i].attempted)
                 /\ sessions[i].attempted = 0
        THEN Report("error")
        ELSE [Report("summary") EXCEPT
                 !.num_sessions = Len(sessions),
                 !.total_attempted = total_attempted,
                 !.total_correct = total_correct,
                 !.accuracy_na = ~with_accuracy,
                 !.accuracy = IF with_accuracy
                              THEN Tenths(total_correct * 100, total_attempted) ELSE 0,
                 !.durations_reported = with_durations,
                 !.all_durations = all_durations,
                 !.sum_durations = IF with_durations THEN SumSeq(all_durations) ELSE 0,
                 !.avg_dur = IF with_durations
                             THEN Tenths(SumSeq(all_durations), Len(all_durations)) ELSE 0,
                 !.fastest = IF with_durations THEN MinOf(all_durations) ELSE 0,
                 !.slowest = IF with_durations THEN MaxOf(all_durations) ELSE 0,
                 !.late_total =
                     IF with_durations
                     THEN Cardinality({i \in 1..Len(all_durations) :
                                         all_durations[i] > DEFAULT_DURATION_SECONDS})
                     ELSE 0,
                 !.session_lines = SessionLines(sessions)]

\* compute_and_print_stats: what it reports for a file; opening a missing file
\* raises FileNotFoundError
ComputeAndPrintStats(file) ==
    IF NoCsv(file) THEN Report("no_csv")
    ELSE IF ~file.exists THEN Report("error")
    ELSE StatsOf(Sessions(file.rows))

(***************************************************************************)
(* study_timer.py : operations on the session CSV                          *)
(***************************************************************************)
MaxRows == 2           \* data rows of the CSV explored

RowsIn(file) == Len(file.rows)

EnsureCsv ==
    /\ program = "terminal"
    /\ csv_file' = EnsureCsvFile(csv_file)
    /\ last_op' = "ensure_csv"
    /\ UNCHANGED <<program, guiVars, stats, loopVars>>

\* durations a session may pass to append_session
SessionDurations == {<<30>>, <<60, 90>>, <<241>>}

AppendSession(wall_seconds, started, attempted, correct, durations) ==
    /\ program = "terminal"
    /\ RowsIn(csv_file) <= MaxRows
    /\ csv_file' = AppendRow(csv_file,
                       SessionRow(wall_seconds, started, attempted, correct, durations))
    /\ last_op' = "append_session"
    /\ UNCHANGED <<program, guiVars, stats, loopVars>>

ComputeStats ==
    /\ program = "terminal"
    /\ stats' = ComputeAndPrintStats(csv_file)
    /\ last_op' = "compute_and_print_stats"
    /\ UNCHANGED <<program, guiVars, csv_file, loopVars>>

\* rows the CSV may hold when the program finds it: rows of earlier sessions,
\* rows damaged or edited by hand, a blank line
AttemptedTexts == {Str(1), Str(3), <<"x">>, <<>>}
CorrectTexts == {Str(1), <<"y">>}
DurationTexts ==
    {<<>>, Str(30), Str(60), Str(90),
     Join(<<Str(60), Str(90)>>, ";"), Join(<<Str(30), Str(60), Str(90)>>, ";"),
     Join(<<Str(30), <<"x">>>>, ";")}

FoundRows ==
    {<< <<"then">>, Str(200), Str(4), a, c, d >> :
        a \in AttemptedTexts, c \in CorrectTexts, d \in DurationTexts}
    \cup {<<>>, << <<"then">>, Str(200) >>}

RECURSIVE RowSeqs(_)
RowSeqs(n) ==
    IF n = 0 THEN {<<>>}
    ELSE LET shorter == RowSeqs(n - 1)
         IN  shorter \cup {rs \o <<r>> : rs \in {x \in shorter : Len(x) = n - 1},
                                          r \in FoundRows}

FoundFiles == {Absent} \cup {File(<<CSV_HEADERS>> \o rs) : rs \in RowSeqs(MaxRows)}

\* rows of earlier sessions with and without attempted questions
AccuracyRows ==
    {<< <<"then">>, Str(200), Str(4), a, c, d >> :
        a \in {Str(0), Str(3), Str(10), <<>>}, c \in {Str(0), Str(3), Str(7)},
        d \in {<<>>, Str(30)}}

RECURSIVE AccuracyRowSeqs(_)
AccuracyRowSeqs(n) ==
    IF n = 0 THEN {<<>>}
    ELSE LET shorter == AccuracyRowSeqs(n - 1)
         IN  shorter \cup {rs \o <<r>> : rs \in {x \in shorter : Len(x) = n - 1},
                                          r \in AccuracyRows}

AccuracyFiles ==
    {Absent} \cup {File(<<CSV_HEADERS>> \o rs) : rs \in AccuracyRowSeqs(MaxRows)}

(***************************************************************************)
(* study_timer.py : interactive_loop, Session, prompt_int, do_beep         *)
(***************************************************************************)
MaxLines == 4          \* lines the user enters in one run
MaxLateSeconds == 1    \* seconds a timer is followed beyond its duration

None == 0 - 1          \* stands for Python's None where a time is expected

exit_letter == "q"     \* main: the default exit letter

\* str.lower(), on the letters the input lines use
Lower(c) == IF c = "Q" THEN "q" ELSE IF c = "X" THEN "x" ELSE c
LowerText(t) == [i \in 1..Len(t) |-> Lower(t[i])]

\* lines the user may enter: plain Enter, the exit letter (in upper case and
\* with a blank before it, which the loop accepts like the bare letter), a
\* note, a count
Lines == {<<>>, <<" ", "Q">>, <<"x">>, Str(1)}

\* Session.__init__
NewSession ==
    [duration_seconds |-> DEFAULT_DURATION_SECONDS, current_start |-> None,
     per_question_durations |-> <<>>, started_count |-> 0]

\* Session.is_running
IsRunning(s) == s.current_start # None

\* Session.elapsed_since_start
ElapsedSinceStart(s, now) == IF s.current_start = None THEN 0 ELSE now - s.current_start

\* Session.start
StartUncounted(s, now) == [s EXCEPT !.current_start = now]
SessionStart(s, now) ==
    [s EXCEPT !.current_start = now, !.started_count = @ + 1]

\* Session.end
SessionEnd(s, now) ==
    IF s.current_start = None THEN s
    ELSE [s EXCEPT !.per_question_durations = Append(@, now - s.current_start),
                   !.current_start = None]

\* "line.strip().lower() == exit_letter.lower()"
IsExitAlways(line) == Strip(line) # <<>>
IsExit(line) == LowerText(Strip(line)) = <<Lower(exit_letter)>>

\* interactive_loop: the branch taken for a plain Enter
EnterEndsOnly(s, now) == IF ~IsRunning(s) THEN SessionStart(s, now) ELSE SessionEnd(s, now)
HandleEnter(s, now) ==
    IF ~IsRunning(s) THEN SessionStart(s, now)
    ELSE SessionStart(SessionEnd(s, now), now)

\* do_beep: what is emitted when winsound is "absent", "works" or "raises"
AudioStates == {"absent", "works", "raises"}
DoBeep(audio) == IF audio = "works" THEN "beep" ELSE "bell"

\* "if session.elapsed_since_start() >= session.duration_seconds"
IsOverdue(s, now) == IsRunning(s) /\ ElapsedSinceStart(s, now) >= s.duration_seconds

\* "if now - last_beep_time >= 1.0"
BeepDueAlways(s, now, alarm, last_beep) == IsOverdue(s, now)
BeepDue(s, now, alarm, last_beep) ==
    IsOverdue(s, now) /\ now - (IF alarm THEN last_beep ELSE 0) >= 1

\* get_nowait: at most one line leaves the queue per iteration
TakesAll(queue) == queue
Taken(queue) == IF queue = <<>> THEN <<>> ELSE <<Head(queue)>>

Rest(queue, taken) == SubSeq(queue, Len(taken) + 1, Len(queue))

\* how the loop treats a line it has taken
LineKind(line) ==
    IF IsExit(line) THEN "exit" ELSE IF line = <<>> THEN "enter" ELSE "note"

Handled(line, kind) == [line |-> line, as |-> kind]

\* the session after the lines taken in one iteration, up to an exit line
RECURSIVE AfterLines(_, _, _)
AfterLines(s, lines, now) ==
    IF lines = <<>> \/ IsExit(Head(lines)) THEN s
    ELSE AfterLines(IF Head(lines) = <<>> THEN HandleEnter(s, now) ELSE s,
                    Tail(lines), now)

Exits(lines) == \E i \in 1..Len(lines) : IsExit(lines[i])
HasEnter(lines) == \E i \in 1..Len(lines) : lines[i] = <<>>

\* "late_after_4min = sum(1 for d in session.per_question_durations
\*                        if d > session.duration_seconds)"
LateAfterLimit(s) ==
    Cardinality({i \in 1..Len(s.per_question_durations) :
                    s.per_question_durations[i] > s.duration_seconds})

\* "if attempted == 0: ... return", else on to prompt_int
LogsAlways(s) == "prompt"
AfterLoop(s) == IF Len(s.per_question_durations) = 0 THEN "done" ELSE "prompt"

\* the reader thread: one line read from stdin is put on the queue
ReaderPut(line) ==
    /\ program = "terminal"
    /\ pc \in {"loop", "prompt", "prompt_int"}
    /\ Len(entered) < MaxLines
    /\ iq' = Append(iq, line)
    /\ entered' = Append(entered, line)
    /\ UNCHANGED <<program, guiVars, csv_file, stats, last_op, pc, session,
                   session_start_wall, alarm_active, last_beep_time, clock, sound,
                   handled, prompt, alarms>>

\* one iteration of "while True": take a line if there is one, handle it, show
\* the time left, run the overdue check, sleep
LoopIteration(audio) ==
    LET taken == Taken(iq)
        exits == Exits(taken)
        after == AfterLines(session, taken, clock)
        restarted == ~exits /\ HasEnter(taken) /\ IsRunning(session)
        alarm == IF restarted THEN FALSE ELSE alarm_active
        overdue == ~exits /\ IsOverdue(after, clock)
        beeps == ~exits /\ BeepDue(after, clock, alarm, last_beep_time)
    IN  /\ program = "terminal"
        /\ pc = "loop"
        /\ iq' = Rest(iq, taken)
        /\ handled' = handled \o [i \in 1..Len(taken) |->
                                      Handled(taken[i], LineKind(taken[i]))]
        /\ session' = after
        /\ session_start_wall' =
              IF ~exits /\ HasEnter(taken) /\ session_start_wall = None
              THEN clock ELSE session_start_wall
        /\ alarm_active' = (alarm \/ overdue)
        /\ last_beep_time' = IF beeps THEN clock
                             ELSE IF overdue /\ ~alarm THEN 0 ELSE last_beep_time
        /\ sound' = IF beeps THEN DoBeep(audio) ELSE sound
        /\ pc' = IF exits THEN AfterLoop(after) ELSE "loop"
        /\ last_op' = IF exits THEN "exit" ELSE last_op
        /\ alarms' = IF restarted /\ alarm_active THEN alarms + 1 ELSE alarms
        /\ UNCHANGED <<program, guiVars, csv_file, stats, clock, entered, prompt>>

\* Ctrl+C in the loop: "except KeyboardInterrupt", then the finalisation
Interrupt ==
    /\ program = "terminal"
    /\ pc = "loop"
    /\ pc' = AfterLoop(session)
    /\ last_op' = "interrupt"
    /\ UNCHANGED <<program, guiVars, csv_file, stats, session, session_start_wall,
                   alarm_active, last_beep_time, iq, clock, sound, entered, handled,
                   prompt, alarms>>

\* time passes while a timer runs.  Explored: a timer runs to the end of its
\* duration, then second by second up to MaxLateSeconds beyond it.
Advance ==
    LET elapsed == ElapsedSinceStart(session, clock) IN
    /\ program = "terminal"
    /\ pc = "loop"
    /\ IsRunning(session)
    /\ elapsed < session.duration_seconds + MaxLateSeconds
    /\ clock' = IF elapsed = 0 THEN clock + session.duration_seconds ELSE clock + 1
    /\ UNCHANGED <<program, guiVars, csv_file, stats, last_op, pc, session,
                   session_start_wall, alarm_active, last_beep_time, iq, sound,
                   entered, handled, prompt, alarms>>

\* prompt_int with an input queue: the outcome of one pass of its loop on the
\* line s.  int(s) raises ValueError on a text that is no integer.
PromptOutcome(returned, value, said) ==
    [returned |-> returned, value |-> value, said |-> said]

PromptIntAcceptsNegative(s, default) ==
    IF s = <<>> /\ default # None THEN PromptOutcome(TRUE, default, "")
    ELSE IF ~IsIntText(s) THEN PromptOutcome(FALSE, 0, "Please enter an integer.")
    ELSE PromptOutcome(TRUE, IntOf(s), "")
PromptInt(s, default) ==
    IF s = <<>> /\ default # None THEN PromptOutcome(TRUE, default, "")
    ELSE IF ~IsIntText(s) THEN PromptOutcome(FALSE, 0, "Please enter an integer.")
    ELSE IF IntOf(s) < 0
         THEN PromptOutcome(FALSE, 0, "Please enter a non-negative integer.")
    ELSE PromptOutcome(TRUE, IntOf(s), "")

\* the call of prompt_int: its default, how many lines it has read, the line
\* read last and the outcome of that pass
NoPrompt == [default |-> None, reads |-> 0, line |-> <<>>,
             outcome |-> PromptOutcome(FALSE, 0, "")]

PromptRead(p, s) ==
    [p EXCEPT !.reads = @ + 1, !.line = s, !.outcome = PromptInt(s, p.default)]

\* "correct = max(0, attempted - wrong)"
CorrectUnclamped(attempted, wrong) == attempted - wrong
Correct(attempted, wrong) == IF attempted - wrong > 0 THEN attempted - wrong ELSE 0

\* "wall_seconds = int(time.monotonic() - session_start_wall)"
WallUnset(start_wall, now) == 0
WallSeconds(start_wall, now) == IF start_wall = None THEN 0 ELSE now - start_wall

\* the row interactive_loop passes to append_session
LoopRow(s, start_wall, now, wrong) ==
    SessionRow(WallSeconds(start_wall, now), s.started_count,
               Len(s.per_question_durations),
               Correct(Len(s.per_question_durations), wrong),
               s.per_question_durations)

\* prompt_int on its own: it takes the next line from the queue (iq.get() blocks
\* until there is one) and returns or asks again
PromptIntLine ==
    /\ program = "terminal"
    /\ pc = "prompt_int"
    /\ iq # <<>>
    /\ iq' = Tail(iq)
    /\ prompt' = PromptRead(prompt, Head(iq))
    /\ handled' = Append(handled, Handled(Head(iq),
                     IF prompt'.outcome.returned THEN "answer" ELSE "rejected"))
    /\ pc' = IF prompt'.outcome.returned THEN "returned" ELSE "prompt_int"
    /\ last_op' = "prompt_int"
    /\ UNCHANGED <<program, guiVars, csv_file, stats, session, session_start_wall,
                   alarm_active, last_beep_time, clock, sound, entered, alarms>>

\* the end of interactive_loop: prompt_int takes the next line from the queue; a
\* rejected line repeats the prompt, an accepted one is followed by
\* append_session and compute_and_print_stats.  written = FALSE is
\* path.open("a") raising OSError, which nothing catches.
PromptLine(written) ==
    LET asked == PromptRead(prompt, Head(iq)) IN
    /\ program = "terminal"
    /\ pc = "prompt"
    /\ iq # <<>>
    /\ iq' = Tail(iq)
    /\ prompt' = asked
    /\ IF ~asked.outcome.returned
       THEN /\ written
            /\ handled' = Append(handled, Handled(Head(iq), "rejected"))
            /\ last_op' = "prompt_again"
            /\ UNCHANGED <<pc, csv_file, stats>>
       ELSE /\ handled' = Append(handled, Handled(Head(iq), "answer"))
            /\ IF written
               THEN /\ csv_file' = AppendRow(csv_file,
                                       LoopRow(session, session_start_wall, clock,
                                               asked.outcome.value))
                    /\ stats' = ComputeAndPrintStats(csv_file')
                    /\ pc' = "done"
                    /\ last_op' = "logged"
               ELSE /\ pc' = "crashed"
                    /\ last_op' = "append_failed"
                    /\ UNCHANGED <<csv_file, stats>>
    /\ UNCHANGED <<program, guiVars, session, session_start_wall, alarm_active,
                   last_beep_time, clock, sound, entered, alarms>>

(***************************************************************************)
(* Initial states and specifications                                       *)
(***************************************************************************)
NoGui ==
    /\ question_data = [q \in Questions |-> NewQuestion]
    /\ current_question_num = 1
    /\ pending = [q \in Questions |-> 0]
    /\ text_file = <<>>
    /\ halted_by = [q \in Questions |-> "none"]
    /\ fresh_run = [q \in Questions |-> FALSE]
    /\ run_ticks = [q \in Questions |-> 0]
    /\ run_beeps = [q \in Questions |-> 0]
    /\ screen = "setup"
    /\ session_timer_running = FALSE
    /\ session_elapsed_seconds = 0
    /\ session_pending = 0
    /\ question_records = <<>>
    /\ save_dialog = "none"
    /\ gui_audio = "works"
    /\ session_count = 0

\* interactive_loop is not running
NoLoop ==
    /\ pc = "off"
    /\ session = NewSession
    /\ session_start_wall = None
    /\ alarm_active = FALSE
    /\ last_beep_time = 0
    /\ iq = <<>>
    /\ clock = 1
    /\ sound = "silent"
    /\ entered = <<>>
    /\ handled = <<>>
    /\ prompt = NoPrompt
    /\ alarms = 0

NoTerminal ==
    /\ csv_file = Absent
    /\ stats = NoStats
    /\ last_op = "none"
    /\ NoLoop

\* the session timer of a session begun `ticks` calls of run_session_timer ago
SessionStarted(ticks) ==
    /\ screen = "test"
    /\ session_timer_running = TRUE
    /\ session_elapsed_seconds = ticks
    /\ session_pending = 1
    /\ question_records = <<>>
    /\ save_dialog = "none"
    /\ session_count = 1

\* start_session: session created, log header written, the question blocks built
InitGui ==
    /\ program = "gui"
    /\ question_data = [q \in Questions |-> NewQuestion]
    /\ current_question_num = 1
    /\ pending = [q \in Questions |-> 0]
    /\ text_file = LogHeader
    /\ halted_by = [q \in Questions |-> "none"]
    /\ fresh_run = [q \in Questions |-> FALSE]
    /\ run_ticks = [q \in Questions |-> 0]
    /\ run_beeps = [q \in Questions |-> 0]
    /\ SessionStarted(1)
    /\ gui_audio = "works"
    /\ NoTerminal

\* the terminal program finds the CSV of its subject in any state
InitTerminal ==
    /\ program = "terminal"
    /\ NoGui
    /\ csv_file \in FoundFiles
    /\ stats = NoStats
    /\ last_op = "none"
    /\ NoLoop

\* the terminal program finds a CSV of sessions with 0, 3 or 10 attempted
InitAccuracy ==
    /\ program = "terminal"
    /\ NoGui
    /\ csv_file \in AccuracyFiles
    /\ stats = NoStats
    /\ last_op = "none"
    /\ NoLoop

\* main has called ensure_csv and entered interactive_loop: the CSV holds the
\* header and perhaps the row of an earlier session
LoopFiles ==
    {File(<<CSV_HEADERS>>),
     File(<<CSV_HEADERS, SessionRow(200, 2, 1, 1, <<30>>)>>)}

InitLoop ==
    /\ program = "terminal"
    /\ NoGui
    /\ csv_file \in LoopFiles
    /\ stats = NoStats
    /\ last_op = "none"
    /\ pc = "loop"
    /\ session = NewSession
    /\ session_start_wall = None
    /\ alarm_active = FALSE
    /\ last_beep_time = 0
    /\ iq = <<>>
    /\ clock = 1
    /\ sound = "silent"
    /\ entered = <<>>
    /\ handled = <<>>
    /\ prompt = NoPrompt
    /\ alarms = 0

\* the GUI one second before question 1 reaches the limit: Start was pressed on
\* question 1 and its timer has run undisturbed since
InitGuiLate ==
    LET before == max_time_per_question * SecondsPerMinute - 1 IN
    /\ program = "gui"
    /\ question_data =
          [q \in Questions |->
              IF q = 1
              THEN [NewQuestion EXCEPT !.timer_running = TRUE,
                                       !.elapsed_seconds = before]
              ELSE NewQuestion]
    /\ current_question_num = 1
    /\ pending = [q \in Questions |-> IF q = 1 THEN 1 ELSE 0]
    /\ text_file = LogHeader
    /\ halted_by = [q \in Questions |-> "none"]
    /\ fresh_run = [q \in Questions |-> q = 1]
    /\ run_ticks = [q \in Questions |-> IF q = 1 THEN before - 1 ELSE 0]
    /\ run_beeps = [q \in Questions |-> 0]
    /\ SessionStarted(before)
    /\ gui_audio \in {"works", "raises"}
    /\ NoTerminal

NextTimers ==
    \/ \E q \in Questions : StartQuestionTimer(q)
    \/ \E q \in Questions : PauseQuestionTimer(q)
    \/ \E q \in Questions : StopQuestionTimer(q)
    \/ \E q \in Questions : Tick(q)

NextGui ==
    \/ NextTimers
    \/ \E opened \in BOOLEAN : SaveAllQuestions(opened)

\* a session in which the question timers are left alone
NextSession ==
    \/ \E opened \in BOOLEAN, again \in BOOLEAN : SessionTick(opened, again)
    \/ \E confirm \in BOOLEAN, opened \in BOOLEAN, again \in BOOLEAN :
          EndSession(confirm, opened, again)
    \/ StartSession
    \/ \E opened \in BOOLEAN : SaveAllQuestions(opened)
    \/ \E typed \in TypedTimes : EditTime(1, typed)

NextTerminal ==
    \/ EnsureCsv
    \/ \E durations \in SessionDurations, wrong \in 0..1 :
          AppendSession(200, Len(durations) + 1, Len(durations),
                        Len(durations) - wrong, durations)
    \/ ComputeStats

\* prompt_int called with an input queue and any default
Defaults == {None, 0, 7}

\* answers to a prompt: the lines above, and counts written with a sign or
\* with blanks around them
PromptLines ==
    Lines \cup {<<"q">>, <<"-", "1">>, <<"-", "0">>, <<"+", "3">>, <<" ", "7", " ">>}

InitPrompt ==
    /\ program = "terminal"
    /\ NoGui
    /\ csv_file = Absent
    /\ stats = NoStats
    /\ last_op = "none"
    /\ pc = "prompt_int"
    /\ session = NewSession
    /\ session_start_wall = None
    /\ alarm_active = FALSE
    /\ last_beep_time = 0
    /\ iq = <<>>
    /\ clock = 1
    /\ sound = "silent"
    /\ entered = <<>>
    /\ handled = <<>>
    /\ \E default \in Defaults : prompt = [NoPrompt EXCEPT !.default = default]
    /\ alarms = 0

NextPrompt ==
    \/ \E line \in PromptLines : ReaderPut(line)
    \/ PromptIntLine

NextLoop ==
    \/ \E line \in Lines : ReaderPut(line)
    \/ \E audio \in AudioStates : LoopIteration(audio)
    \/ Interrupt
    \/ Advance
    \/ \E written \in BOOLEAN : PromptLine(written)

\* lines of a session whose answer to the prompt may exceed the number of
\* questions attempted
RowLines == {<<>>, <<" ", "Q">>, Str(1), Str(3)}

NextRows ==
    \/ \E line \in RowLines : ReaderPut(line)
    \/ \E audio \in AudioStates : LoopIteration(audio)
    \/ Interrupt
    \/ Advance
    \/ \E written \in BOOLEAN : PromptLine(written)

Init == InitGuiLate \/ InitTerminal
Next == NextGui \/ NextTerminal

\* the question timers of the GUI, from the start of a session
SpecTimers == InitGui /\ [][NextTimers]_vars
\* the session CSV of the terminal program
SpecTerminal == InitTerminal /\ [][NextTerminal]_vars
\* the accuracy lines of compute_and_print_stats
SpecAccuracy == InitAccuracy /\ [][NextTerminal]_vars
\* one run of interactive_loop of the terminal program
SpecLoop == InitLoop /\ [][NextLoop]_vars
\* one run of interactive_loop with small and large answers to its prompt
SpecRows == InitLoop /\ [][NextRows]_vars
\* prompt_int reading from the input queue
SpecPrompt == InitPrompt /\ [][NextPrompt]_vars
\* the session timer of the GUI, the ends of a session and its log
SpecSession == InitGui /\ [][NextSession]_vars
\* both programs with the failures of their surroundings: an audio call that
\* raises, a log file that cannot be opened
SpecFaults == (InitGuiLate \/ InitLoop) /\ [][NextGui \/ NextLoop]_vars
\* the question timers together with the session timer, from one second
\* before question 1 reaches the limit and the session its total duration
NextTotals ==
    \/ NextTimers
    \/ \E opened \in BOOLEAN, again \in BOOLEAN : SessionTick(opened, again)

SpecTotals == InitGuiLate /\ [][NextTotals]_vars
\* the log files of both programs
Spec == Init /\ [][Next]_vars

(***************************************************************************)
(* Properties                                                              *)
(***************************************************************************)
Limit == max_time_per_question * SecondsPerMinute

Running(q) == question_data[q].timer_running
Elapsed(q) == question_data[q].elapsed_seconds

\* C1: a fresh question timer that is started, receives N scheduled ticks and
\* is stopped has elapsed_seconds = N.
C1_ElapsedEqualsTicks ==
    \A q \in Questions :
        (halted_by[q] = "stop" /\ fresh_run[q]) => Elapsed(q) = run_ticks[q]

\* C2 as stated: a run ended by stop has played the beep exactly once when its
\* elapsed time has reached the limit (>=), and never otherwise.
C2_BeepOnceWhenLimitReached ==
    \A q \in Questions :
        halted_by[q] = "stop" =>
            run_beeps[q] = IF Elapsed(q) >= Limit THEN 1 ELSE 0

\* C2 as amended: a run ended by stop has played the beep exactly once when its
\* elapsed time has exceeded the limit (>), however many ticks followed, and
\* never when it ended at or below the limit.
C2_BeepOnceWhenLimitExceeded ==
    \A q \in Questions :
        halted_by[q] = "stop" =>
            run_beeps[q] = IF Elapsed(q) > Limit THEN 1 ELSE 0

C2_Witness ==
    \E q \in Questions :
        halted_by[q] = "stop" /\ run_beeps[q] = 1 /\ Elapsed(q) >= Limit + 2

\* C3 as stated: resuming a paused question whose alert has fired and whose
\* elapsed time is above the limit does not play the beep again.
C3_NoBeepOnResume ==
    [][\A q \in Questions :
          (/\ halted_by[q] = "pause"
           /\ question_data[q].beep_played
           /\ Elapsed(q) > Limit
           /\ question_data'[q].timer_running)
          => run_beeps'[q] = 0]_vars

\* C3 as amended: between two starts of a question the beep is played at most
\* once; start_question_timer re-arms it, so resuming a paused question whose
\* elapsed time is above the limit plays the beep again, once, at the resume.
C3_BeepOncePerStart ==
    /\ [](\A q \in Questions : run_beeps[q] <= 1)
    /\ [][\A q \in Questions :
             (/\ halted_by[q] = "pause"
              /\ Elapsed(q) >= Limit
              /\ question_data'[q].timer_running)
             => run_beeps'[q] = 1]_vars

C3_Witness ==
    \E q \in Questions :
        /\ halted_by[q] = "resumed"
        /\ run_beeps[q] = 1
        /\ Elapsed(q) >= Limit + 2

\* C4: a question's elapsed_seconds never decreases, and does not change from
\* one state to the next while timer_running is False in both, whatever
\* callback fires.
C4_ElapsedMonotoneAndFrozen ==
    [][\A q \in Questions :
          /\ Elapsed(q)' >= Elapsed(q)
          /\ (~Running(q) /\ ~Running(q)') => Elapsed(q)' = Elapsed(q)]_vars

\* a callback scheduled before the pause has fired on the halted timer
C4_Witness ==
    \E q \in Questions :
        /\ halted_by[q] \in {"pause", "stop"}
        /\ pending[q] = 0
        /\ Elapsed(q) > 1

Overdue(q) ==
    /\ Running(q)
    /\ question_data[q].beep_played
    /\ question_data[q].timer_label_fg = "red"

\* C5 as stated: a running question is Overdue exactly when elapsed >= limit.
C5_OverdueFromLimit ==
    \A q \in Questions : Running(q) => (Overdue(q) <=> Elapsed(q) >= Limit)

\* C5 as amended: a running question is Overdue (alert fired, timer shown in
\* red) exactly when elapsed > limit, and a question leaves Overdue only by its
\* timer being halted (stop or pause), never by a tick.
C5_OverdueAboveLimit ==
    /\ [](\A q \in Questions : Running(q) => (Overdue(q) <=> Elapsed(q) > Limit))
    /\ [][\A q \in Questions : (Overdue(q) /\ Running(q)') => Overdue(q)']_vars

C5_Witness ==
    \E q \in Questions : Overdue(q) /\ Elapsed(q) = Limit + 1 /\ pending[q] >= 1

(***************************************************************************)
(* Properties of the log files                                             *)
(***************************************************************************)
IsPrefix(old, new) == Len(old) <= Len(new) /\ SubSeq(new, 1, Len(old)) = old

TheHeader ==
    << <<"datetime">>, <<"session_wall_seconds">>, <<"questions_started">>,
       <<"questions_attempted">>, <<"questions_correct">>,
       <<"per_question_durations_seconds">> >>

\* C6: logging is append-only in both programs: whatever the log held before a
\* step is still there afterwards, unchanged and in the same position.
C6_AppendOnly ==
    [][/\ IsPrefix(text_file, text_file')
       /\ csv_file.exists => (csv_file'.exists /\ IsPrefix(csv_file.rows, csv_file'.rows))
      ]_vars

\* a session row has been appended behind the rows of an earlier session
C6_Witness ==
    /\ last_op = "append_session"
    /\ Len(csv_file.rows) >= 3
    /\ csv_file.rows[1] = TheHeader

\* C7: ensure_csv creates an absent file holding exactly the header row, leaves
\* an existing file unchanged, and a second call changes nothing.
C7_EnsureCsvIdempotent ==
    [][last_op' = "ensure_csv" =>
          /\ csv_file'.exists
          /\ ~csv_file.exists => csv_file'.rows = <<TheHeader>>
          /\ csv_file.exists => csv_file' = csv_file
          /\ last_op = "ensure_csv" => csv_file' = csv_file]_vars

\* ensure_csv has run on a file that already held session rows
C7_Witness ==
    /\ last_op = "ensure_csv"
    /\ Len(csv_file.rows) >= 2
    /\ csv_file.rows[1] = TheHeader

\* The rows of a log with the header of ensure_csv, read by column position.
Column(row, i) == IF i <= Len(row) THEN row[i] ELSE <<>>

NumberText(text) == text = <<>> \/ IsIntText(text)

WellFormed(row) ==
    /\ NumberText(Column(row, 4))
    /\ NumberText(Column(row, 5))
    /\ LET ps == Split(Column(row, 6), ";")
       IN  \A i \in 1..Len(ps) : IsBlank(ps[i]) \/ IsIntText(ps[i])

Number(text) == IF text = <<>> THEN 0 ELSE IntOf(text)

RowDurations(row) ==
    LET ps == SelectSeq(Split(Column(row, 6), ";"), NotBlank)
    IN  [i \in 1..Len(ps) |-> IntOf(ps[i])]

\* the well-formed data rows of a log, in order
RECURSIVE GoodRows(_)
GoodRows(rows) ==
    IF rows = <<>> THEN <<>>
    ELSE (IF Head(rows) # <<>> /\ WellFormed(Head(rows)) THEN <<Head(rows)>> ELSE <<>>)
         \o GoodRows(Tail(rows))

RECURSIVE Total(_, _)
Total(rows, i) ==
    IF rows = <<>> THEN 0 ELSE Number(Column(Head(rows), i)) + Total(Tail(rows), i)

RECURSIVE AllDurations(_)
AllDurations(rows) ==
    IF rows = <<>> THEN <<>> ELSE RowDurations(Head(rows)) \o AllDurations(Tail(rows))

\* compute_and_print_stats has just read the log csv_file, which has the header
StatsOfLog ==
    /\ last_op = "compute_and_print_stats"
    /\ csv_file.exists
    /\ csv_file.rows # <<>>
    /\ csv_file.rows[1] = TheHeader

\* C8: the computation completes on any mix of well-formed and malformed rows;
\* every well-formed row is counted and a malformed row adds to none of the
\* aggregates (sessions, attempted, correct, durations).
C8_MalformedRowsSkipped ==
    StatsOfLog =>
        LET good == GoodRows(Tail(csv_file.rows))
        IN  /\ stats.status = "summary"
            /\ stats.num_sessions = Len(good)
            /\ stats.total_attempted = Total(good, 4)
            /\ stats.total_correct = Total(good, 5)
            /\ stats.all_durations = AllDurations(good)

\* the log read has a row whose attempted and correct fields parse but whose
\* durations do not, followed by a well-formed row
C8_Witness ==
    /\ StatsOfLog
    /\ Len(csv_file.rows) = 3
    /\ ~WellFormed(csv_file.rows[2])
    /\ IsIntText(Column(csv_file.rows[2], 4))
    /\ IsIntText(Column(csv_file.rows[2], 5))
    /\ WellFormed(csv_file.rows[3])
    /\ stats.num_sessions = 1

ZeroDataRows == ~csv_file.exists \/ Len(csv_file.rows) <= 1

\* C9 as stated: on a log with zero data rows, or no file, the function
\* finishes without an error and reports 0 sessions, accuracy N/A and no
\* duration statistics.
C9_NoDataSummary ==
    (last_op = "compute_and_print_stats" /\ ZeroDataRows) =>
        /\ stats.status = "summary"
        /\ stats.num_sessions = 0
        /\ stats.accuracy_na
        /\ ~stats.durations_reported

\* C9 as amended: on an existing log with zero data rows the function finishes
\* without an error and reports 0 sessions, accuracy N/A and no duration
\* statistics; with no file it finishes without an error and reports only that
\* no CSV was found.
C9_NoDataResult ==
    (last_op = "compute_and_print_stats" /\ ZeroDataRows) =>
        IF csv_file.exists
        THEN /\ stats.status = "summary"
             /\ stats.num_sessions = 0
             /\ stats.accuracy_na
             /\ ~stats.durations_reported
        ELSE /\ stats.status = "no_csv"
             /\ ~stats.accuracy_na
             /\ ~stats.durations_reported

C9_Witness ==
    /\ last_op = "compute_and_print_stats"
    /\ csv_file = File(<<TheHeader>>)
    /\ stats.status = "summary"

IsMin(m, xs) == (\E i \in 1..Len(xs) : xs[i] = m) /\ (\A i \in 1..Len(xs) : m <= xs[i])
IsMax(m, xs) == (\E i \in 1..Len(xs) : xs[i] = m) /\ (\A i \in 1..Len(xs) : m >= xs[i])

RECURSIVE SumFromEnd(_)
SumFromEnd(xs) ==
    IF xs = <<>> THEN 0 ELSE xs[Len(xs)] + SumFromEnd(SubSeq(xs, 1, Len(xs) - 1))

\* tenths is the tenth nearest to total / n
IsMean(tenths, total, n) ==
    /\ 2 * (tenths * n - 10 * total) <= n
    /\ 2 * (10 * total - tenths * n) <= n

\* C10: over the durations of all well-formed rows put end to end, the function
\* reports their mean, minimum and maximum, with a sum equal to their total;
\* [30, 60, 90] gives mean 60, min 30, max 90, sum 180, in one row or several.
C10_DurationStatistics ==
    StatsOfLog =>
        LET ds == AllDurations(GoodRows(Tail(csv_file.rows)))
        IN  /\ stats.durations_reported <=> ds # <<>>
            /\ ds # <<>> =>
                  /\ stats.sum_durations = SumFromEnd(ds)
                  /\ IsMean(stats.avg_dur, stats.sum_durations, Len(ds))
                  /\ IsMin(stats.fastest, ds)
                  /\ IsMax(stats.slowest, ds)
            /\ (Len(ds) = 3 /\ {ds[i] : i \in 1..3} = {30, 60, 90}) =>
                  /\ stats.avg_dur = 600
                  /\ stats.fastest = 30
                  /\ stats.slowest = 90
                  /\ stats.sum_durations = 180

\* the durations 30, 60, 90 were read from more than one row, the smallest last
C10_Witness ==
    /\ StatsOfLog
    /\ stats.num_sessions = 2
    /\ stats.all_durations = <<60, 90, 30>>
    /\ stats.avg_dur = 600
    /\ stats.fastest = 30

(***************************************************************************)
(* Properties of the accuracy lines                                        *)
(***************************************************************************)
\* tenths is the percentage correct / attempted to the nearest tenth
IsPercentage(tenths, correct, attempted) == IsMean(tenths, 100 * correct, attempted)

AccuracyOf(na, tenths, correct, attempted) ==
    /\ attempted > 0 => (~na /\ IsPercentage(tenths, correct, attempted))
    /\ attempted = 0 => na
    /\ (attempted = 10 /\ correct = 7) => tenths = 700

\* C11: accuracy never divides by zero: the summary is always produced; the
\* overall accuracy is total_correct / total_attempted as a percentage when
\* total_attempted > 0 (10 and 7 give 70.0) and N/A when it is 0; each
\* per-session line, most recent first, does the same with its row's numbers.
C11_AccuracyNeverDividesByZero ==
    StatsOfLog =>
        LET good == GoodRows(Tail(csv_file.rows))
            n == Len(good)
        IN  /\ stats.status = "summary"
            /\ AccuracyOf(stats.accuracy_na, stats.accuracy,
                          Total(good, 5), Total(good, 4))
            /\ Len(stats.session_lines) = n
            /\ \A i \in 1..n :
                  LET line == stats.session_lines[i]
                      row == good[n + 1 - i]
                  IN  /\ line.attempted = Number(Column(row, 4))
                      /\ line.correct = Number(Column(row, 5))
                      /\ AccuracyOf(line.acc_na, line.acc, line.correct, line.attempted)

\* 7 of 10 overall, read from a session of 10 followed by a session of 0
C11_Witness ==
    /\ StatsOfLog
    /\ stats.total_attempted = 10
    /\ stats.accuracy = 700
    /\ Len(stats.session_lines) = 2
    /\ stats.session_lines[1].acc_na
    /\ stats.session_lines[2].acc = 700

(***************************************************************************)
(* Properties of the terminal loop                                         *)
(***************************************************************************)
Recorded == session.per_question_durations

\* the step takes the first line of the queue while the loop runs
LoopTakes(line) == pc = "loop" /\ iq # <<>> /\ Head(iq) = line /\ Len(iq') < Len(iq)

\* C12: a plain Enter handled while no timer runs starts one (started_count + 1,
\* nothing recorded); handled while a timer runs it records that timer's
\* elapsed time as one new last entry of per_question_durations and starts a
\* new timer at once (started_count + 1): a timer runs after every Enter.
C12_EnterStartsOrRestarts ==
    [][LoopTakes(<<>>) =>
          /\ session'.started_count = session.started_count + 1
          /\ session'.current_start = clock
          /\ session'.current_start # None
          /\ session'.per_question_durations =
                IF session.current_start = None THEN Recorded
                ELSE Append(Recorded, clock - session.current_start)]_vars

\* an overdue timer was ended by Enter and the next one is running
C12_Witness ==
    /\ pc = "loop"
    /\ Recorded = <<DEFAULT_DURATION_SECONDS + 1>>
    /\ session.started_count = 2
    /\ session.current_start = clock

ExitLines == {line \in Lines : \E i \in 1..Len(line) : line[i] \in {"q", "Q"}}

\* C13: taking the exit line ends the loop whatever the timer and the alarm are
\* doing, and without touching the session; the CSV changes only by one row
\* being appended at the end of a session with at least one recorded timing; a
\* finished session with recordings has logged its row, one without has
\* logged nothing.
C13_SessionEndLogsOneRow ==
    /\ [][\A line \in ExitLines :
             LoopTakes(line) => (pc' \in {"prompt", "done"} /\ session' = session)]_vars
    /\ [][csv_file' # csv_file =>
             /\ Recorded # <<>>
             /\ pc # "done" /\ pc' = "done"
             /\ Len(csv_file'.rows) = Len(csv_file.rows) + 1
             /\ IsPrefix(csv_file.rows, csv_file'.rows)]_vars
    /\ [][pc = "done" => (pc' = "done" /\ csv_file' = csv_file)]_vars
    /\ [](pc = "done" =>
             IF Recorded # <<>> THEN last_op = "logged"
             ELSE last_op \in {"exit", "interrupt"})

\* the exit line was taken while the alarm was on; the row went behind the row
\* of an earlier session
C13_Witness ==
    /\ pc = "done"
    /\ last_op = "logged"
    /\ alarm_active
    /\ session.current_start # None
    /\ Len(csv_file.rows) = 3
    /\ Len(Recorded) = 1

\* the line s writes the number n >= 0: digits, perhaps a sign, perhaps blanks
\* around them
Writes(s, n) ==
    \/ Strip(s) = Str(n)
    \/ Strip(s) = <<"+">> \o Str(n)
    \/ n = 0 /\ Strip(s) = <<"-", "0">>

Counts == 0..9

\* C14: prompt_int never fails on bad input.  A line that is not a number, or
\* is a negative number, is reported and the prompt repeated; the function
\* returns only on a line that writes a non-negative integer, with that value
\* (>= 0), or on an empty line when a default exists, with the default.
C14_PromptIntRepeatsUntilValid ==
    /\ pc \in {"prompt_int", "returned"}
    /\ pc = "returned" <=> (prompt.reads > 0 /\ prompt.outcome.returned)
    /\ prompt.reads > 0 =>
          LET s == prompt.line
              o == prompt.outcome
              by_default == s = <<>> /\ prompt.default # None
          IN  /\ o.returned <=> (by_default \/ \E n \in Counts : Writes(s, n))
              /\ (o.returned /\ by_default) => o.value = prompt.default
              /\ (o.returned /\ ~by_default) => (o.value >= 0 /\ Writes(s, o.value))
              /\ ~o.returned => o.said \in {"Please enter an integer.",
                                             "Please enter a non-negative integer."}
              /\ o.said = "Please enter a non-negative integer."
                    <=> \E n \in Counts : n > 0 /\ Strip(s) = <<"-">> \o Str(n)

\* a negative number and a word were refused before a count was accepted
C14_Witness ==
    /\ pc = "returned"
    /\ prompt.reads = 3
    /\ handled[1] = Handled(<<"-", "1">>, "rejected")
    /\ handled[2] = Handled(<<"x">>, "rejected")
    /\ prompt.outcome.value = 7

HandledLines == [i \in 1..Len(handled) |-> handled[i].line]

\* the reader only puts lines at the end of the queue and the main thread only
\* takes them from its front, at most one in a step: no line is lost, repeated
\* or handled out of turn
QueueInOrder ==
    /\ [](HandledLines \o iq = entered)
    /\ [][/\ Len(handled') <= Len(handled) + 1
           /\ Len(iq') >= Len(iq) - 1
           /\ IsPrefix(handled, handled')
           /\ IsPrefix(entered, entered')]_vars

\* an iteration of the loop can always be taken, and with an empty queue it
\* still runs the overdue check: it raises the alarm of an overdue timer
LoopNeverBlocks ==
    /\ [](pc = "loop" => ENABLED (\E audio \in AudioStates : LoopIteration(audio)))
    /\ []((pc = "loop" /\ iq = <<>> /\ ~alarm_active /\ session.current_start # None
             /\ clock - session.current_start >= DEFAULT_DURATION_SECONDS)
           => ENABLED ((\E audio \in AudioStates : LoopIteration(audio))
                       /\ alarm_active' /\ sound' # "silent" /\ pc' = "loop"))

\* once the loop is left no line is a timer command
NoCommandAfterExit == [][pc # "loop" => session' = session]_vars

\* C15 as stated: the queue keeps the order, every line is handled once, at
\* most one per iteration, the loop never blocks; when the exit line is taken
\* with lines still queued, those are no timer commands and the prompt "How
\* many questions were wrong?" follows and consumes them: none is left when the
\* program ends.
C15_QueuedLinesGoToPrompt ==
    /\ QueueInOrder
    /\ LoopNeverBlocks
    /\ NoCommandAfterExit
    /\ [][\A line \in ExitLines :
             (LoopTakes(line) /\ iq' # <<>>) => pc' = "prompt"]_vars
    /\ [](pc \in {"done", "crashed"} => iq = <<>>)

\* C15 as amended: the queue keeps the order, no line is handled twice, at most
\* one is taken per iteration, the loop never blocks; lines still queued when
\* the exit line is taken are no timer commands; the prompt follows only when
\* a timing was recorded, and takes them in order up to the first it accepts;
\* the others, and all of them when nothing was recorded, are never handled.
C15_QueuedLinesAfterExit ==
    /\ QueueInOrder
    /\ LoopNeverBlocks
    /\ NoCommandAfterExit
    /\ [][\A line \in ExitLines :
             LoopTakes(line) => pc' = IF Recorded = <<>> THEN "done" ELSE "prompt"]_vars
    /\ [][(pc # "loop" /\ iq' # iq /\ Len(iq') <= Len(iq)) =>
             /\ pc = "prompt"
             /\ iq' = Tail(iq)
             /\ handled'[Len(handled')].line = Head(iq)
             /\ handled'[Len(handled')].as \in {"answer", "rejected"}
             /\ handled'[Len(handled')].as = "answer" => pc' \in {"done", "crashed"}]_vars

\* after two Enters and the exit line, a plain Enter was taken by the prompt as
\* a refused answer
C15_Witness ==
    /\ pc = "prompt"
    /\ Len(handled) = 4
    /\ handled[3].as = "exit"
    /\ handled[4] = Handled(<<>>, "rejected")
    /\ Len(Recorded) = 1

(***************************************************************************)
(* Properties of the GUI session and its log                               *)
(***************************************************************************)
\* the timer of question q has been stopped with the Stop button
Stopped(q) == halted_by[q] \in {"stop", "pause_stop"}

\* C16: every question whose timer was stopped has a record in
\* question_records, and the entry a later save_all_questions writes for it
\* carries its timer value, the elapsed seconds frozen at the stop.
C16_StoppedQuestionLogged ==
    /\ [](\A q \in Questions :
             Stopped(q) => \E i \in 1..Len(question_records) :
                              question_records[i].question_number = q)
    /\ [][text_file' # text_file =>
             \A q \in Questions :
                 Stopped(q) =>
                     LET entry == text_file'[Len(text_file) + q]
                     IN  entry.q = q /\ entry.time_spent = Str(Elapsed(q))]_vars

\* the blocks of the last save in the log
LastSave(file) == SubSeq(file, Len(file) - NumQuestions, Len(file))

\* C17: saving is idempotent within a session: once the log ends with a save
\* of the present question data, invoking save_all_questions again (Save All,
\* End Session or the automatic end of the test) leaves the log as it is.
C17_SaveIdempotent ==
    [][(/\ session_count' = session_count
        /\ SavesIn(text_file) >= 1
        /\ LastSave(text_file) = SaveText(question_data))
       => text_file' = text_file]_vars

SessionLimit == total_duration_minutes * SecondsPerMinute

\* C20: session_elapsed_seconds changes only by a tick of the running session
\* timer (or a new session) and never passes total_duration_minutes * 60; the
\* tick on which it reaches that value stops the session timer, schedules no
\* further tick, invokes save_all_questions once and ends the test; from then
\* on, in that session, the counter stays, the timer stays stopped and nothing
\* more is saved.
C20_AutomaticEndOnce ==
    /\ [](session_elapsed_seconds <= SessionLimit)
    /\ [][session_elapsed_seconds' # session_elapsed_seconds =>
             \/ session_count' = session_count + 1
             \/ /\ session_timer_running
                /\ session_elapsed_seconds' = session_elapsed_seconds + 1]_vars
    /\ [][(session_elapsed_seconds' = SessionLimit
            /\ session_elapsed_seconds = SessionLimit - 1) =>
             /\ ~session_timer_running'
             /\ session_pending' = session_pending - 1
             /\ screen' \in {"setup", "quit"}
             /\ \/ /\ save_dialog' = "success"
                   /\ text_file' = text_file \o SaveText(question_data)
                \/ /\ save_dialog' = "error"
                   /\ text_file' = text_file]_vars
    /\ [][(session_elapsed_seconds = SessionLimit /\ session_count' = session_count) =>
             /\ session_elapsed_seconds' = SessionLimit
             /\ ~session_timer_running /\ ~session_timer_running'
             /\ text_file' = text_file]_vars

\* the test of the second session has ended automatically and saved once,
\* while a callback scheduled in the first session is still to fire
C20_Witness ==
    /\ session_elapsed_seconds = SessionLimit
    /\ ~session_timer_running
    /\ session_count = 2
    /\ session_pending = 1
    /\ SavesIn(text_file) = 1
    /\ screen = "setup"

\* C18: a log file that cannot be written aborts only the write that hit it:
\* in the GUI the failing save shows an error and leaves the log, the
\* question data, the timers and the screen as they were; in the terminal
\* program the failing append_session does not end the process with an
\* unhandled error.
C18_UnwritableLogEndsNothing ==
    /\ [][(save_dialog' = "error" /\ save_dialog # "error") =>
             /\ text_file' = text_file
             /\ question_data' = question_data
             /\ pending' = pending
             /\ screen' = screen
             /\ session_timer_running' = session_timer_running]_vars
    /\ [](pc # "crashed")

\* this step of question q calls winsound.Beep
BeepCalled(q) ==
    /\ Elapsed(q)' = Elapsed(q) + 1
    /\ Exceeded(Elapsed(q)')
    /\ ~question_data[q].beep_played \/ ~Running(q)

\* C19: in the GUI a call of run_question_timer whose beep raises has counted
\* its second and recorded the alert as played, and goes on to show the time
\* and to schedule the next call, so that a callback of the running question
\* stays pending; in the terminal program an iteration whose beep is due goes
\* on with the loop when winsound.Beep raises, the bell is written instead and
\* the session is untouched.
C19_FailingAudioNeverStopsTimer ==
    /\ [][\A q \in Questions :
             (gui_audio = "raises" /\ BeepCalled(q)) =>
                 /\ question_data'[q].beep_played
                 /\ Running(q)'
                 /\ question_data'[q].timer_label_fg = "red"
                 /\ pending'[q] >= 1
                 /\ pending'[q] >= pending[q]]_vars
    /\ [](\A q \in Questions :
             (program = "gui" /\ Running(q)) => pending[q] >= 1)
    /\ []((/\ pc = "loop"
            /\ iq = <<>>
            /\ BeepDue(session, clock, alarm_active, last_beep_time))
           => ENABLED (/\ LoopIteration("raises")
                       /\ sound' = "bell"
                       /\ pc' = "loop"
                       /\ session' = session
                       /\ alarm_active'))
    /\ [][(pc = "loop" /\ sound' # sound) => pc' = "loop"]_vars

\* the beep of a question raised when its limit was passed, and the timer has
\* gone on counting with a callback pending
C19_Witness ==
    /\ gui_audio = "raises"
    /\ \E q \in Questions :
           /\ Running(q)
           /\ question_data[q].beep_played
           /\ Elapsed(q) >= Limit + 2
           /\ run_beeps[q] = 1
           /\ pending[q] >= 1

\* the questions have been timed one after the other: the questions before k
\* were each run once and ended by Stop, question k runs, started by the
\* Stop of its predecessor (question 1: by Start), the others are untouched
Sequential ==
    \E k \in 1..(NumQuestions + 1) :
        \A q \in Questions :
            /\ q < k => halted_by[q] = "stop" /\ fresh_run[q] /\ ~Running(q)
            /\ q = k => halted_by[q] = "none" /\ fresh_run[q] /\ Running(q)
            /\ q > k => halted_by[q] = "none" /\ ~Running(q) /\ Elapsed(q) = 0

\* the callbacks of the question timers and of the session timer have fired
\* equally often: the same number of seconds has passed for both
SameSeconds ==
    SumTo(run_ticks, NumQuestions) = session_elapsed_seconds - 1

\* C21: when the questions are timed one after the other without gaps, the
\* sum of elapsed_seconds over all questions (update_total_time_display)
\* equals session_elapsed_seconds after any number of ticks and stops.
C21_TotalEqualsSessionTime ==
    (program = "gui" /\ Sequential /\ SameSeconds)
        => TotalSeconds(question_data) = session_elapsed_seconds

\* C22: for every question at most one run_question_timer callback is
\* pending at any time, whatever the order of start, pause, stop and tick.
C22_OneCallbackPending ==
    \A q \in Questions : pending[q] <= 1

\* C23: after stop_question_timer(q) timer q is not running; when q is not
\* the last question, timer q+1 is running and current_question_num = q+1;
\* when q is the last question no timer is started and current_question_num
\* is unchanged.  The entries of all questions other than q and q+1 are left
\* as they were.
C23_StopFrame ==
    [][\A q \in Questions :
          StopQuestionTimer(q) =>
              /\ ~question_data'[q].timer_running
              /\ q < NumQuestions =>
                     /\ question_data'[q + 1].timer_running
                     /\ current_question_num' = q + 1
              /\ q = NumQuestions =>
                     /\ current_question_num' = current_question_num
                     /\ pending' = pending
                     /\ \A p \in Questions :
                            question_data'[p].timer_running
                                => question_data[p].timer_running
              /\ \A p \in Questions \ {q, q + 1} :
                     question_data'[p] = question_data[p]]_vars

\* question 1 was timed and stopped, which started the next question, and the
\* last question was stopped in turn
C23_Witness ==
    /\ halted_by[1] = "stop"
    /\ Elapsed(1) >= 2
    /\ halted_by[NumQuestions] = "stop"
    /\ current_question_num = NumQuestions
    /\ \A q \in Questions : ~Running(q)

\* a step of the loop that can be seen to call do_beep
LoopBeeps == \E audio \in AudioStates : LoopIteration(audio) /\ sound' # sound

\* C24: in the loop alarm_active implies that a timer is running with elapsed
\* >= duration_seconds; an iteration that leaves a timer running with elapsed
\* >= duration_seconds has alarm mode on (entered on the first such iteration,
\* where the 'exceeded' message is printed); alarm mode is left only by the
\* Enter that ends the question; a beep is emitted only in alarm mode and
\* records its time, and no further beep is emitted within the same second.
C24_OverdueAlarm ==
    /\ [](pc = "loop" /\ alarm_active => IsOverdue(session, clock))
    /\ [][(pc' = "loop" /\ (\E audio \in AudioStates : LoopIteration(audio)))
            => (alarm_active' <=> IsOverdue(session', clock'))]_vars
    /\ [][(alarm_active /\ ~alarm_active')
            => /\ LoopTakes(<<>>)
               /\ Len(Recorded') = Len(Recorded) + 1]_vars
    /\ [][sound' # sound => alarm_active' /\ last_beep_time' = clock]_vars
    /\ []((pc = "loop" /\ alarm_active /\ clock - last_beep_time < 1)
            => ~ENABLED LoopBeeps)

\* the timer has been overdue for a second: the alarm is on and the second
\* beep has just been emitted
C24_Witness ==
    /\ pc = "loop"
    /\ alarm_active
    /\ ElapsedSinceStart(session, clock) = session.duration_seconds + 1
    /\ last_beep_time = clock
    /\ sound # "silent"

\* C25: at the end of a session the number of questions reported as ended
\* after the limit, and the number counted as late in the statistics of a
\* log that held no late question before, equals the number of recorded
\* questions for which the overdue alarm was activated.
C25_LateCountMatchesAlarms ==
    /\ pc \in {"prompt", "done", "crashed"} => LateAfterLimit(session) = alarms
    /\ (pc = "done" /\ last_op = "logged") => stats.late_total = alarms

\* a question ended with exactly duration_seconds on its timer after its
\* alarm was activated
ExactlyAtLimit ==
    /\ pc = "prompt"
    /\ session.per_question_durations = <<session.duration_seconds>>
    /\ alarms = 1

\* C26: end_session with the confirmation declined writes nothing to the log
\* and leaves the session as it was, the session timer still running.
C26_DeclinedEndChangesNothing ==
    [][(\E opened \in BOOLEAN, again \in BOOLEAN : EndSession(FALSE, opened, again))
          => UNCHANGED <<text_file, question_data, sessVars>>]_vars

\* the last row of the CSV
LastRow == csv_file.rows[Len(csv_file.rows)]

LoopEnded == pc \in {"prompt", "done", "crashed"}

\* C27: at every point of a session the recorded durations number at most
\* started_count and at least started_count - 1, and started_count exceeds
\* them exactly when a timer is running; at session end a timer that was
\* started is still running (the exit does not end it), so the row written
\* has questions_started = questions_attempted + 1.
C27_StartedAndAttempted ==
    /\ Len(Recorded) <= session.started_count
    /\ session.started_count <= Len(Recorded) + 1
    /\ session.started_count = Len(Recorded) + 1 <=> IsRunning(session)
    /\ (LoopEnded /\ session.started_count >= 1) =>
           /\ IsRunning(session)
           /\ session.started_count = Len(Recorded) + 1
    /\ (pc = "done" /\ last_op = "logged") =>
           /\ LastRow[3] = Str(session.started_count)
           /\ LastRow[4] = Str(Len(Recorded))
           /\ IntOf(LastRow[3]) = IntOf(LastRow[4]) + 1

\* a session with two questions started and one recorded has been logged
C27_Witness ==
    /\ pc = "done"
    /\ last_op = "logged"
    /\ session.started_count = 2
    /\ Len(Recorded) = 1
    /\ IsRunning(session)

\* the row a step appends to the CSV
NewRow == csv_file'.rows[Len(csv_file'.rows)]

\* C28: every row the terminal program appends has questions_attempted >= 1,
\* as many entries in per_question_durations_seconds as questions_attempted,
\* each of them an integer >= 0, and 0 <= questions_correct <=
\* questions_attempted, whatever number was answered to the prompt.
C28_RowWellFormed ==
    [][csv_file' # csv_file =>
          LET attempted == IntOf(NewRow[4])
              correct == IntOf(NewRow[5])
              pieces == Split(NewRow[6], ";")
          IN  /\ Len(NewRow) = Len(CSV_HEADERS)
              /\ IsIntText(NewRow[4]) /\ IsIntText(NewRow[5])
              /\ attempted >= 1
              /\ Len(pieces) = attempted
              /\ \A i \in 1..Len(pieces) :
                     IsIntText(pieces[i]) /\ IntOf(pieces[i]) >= 0
              /\ 0 <= correct
              /\ correct <= attempted]_vars

\* a row has been written after an answer larger than the number attempted
C28_Witness ==
    /\ pc = "done"
    /\ last_op = "logged"
    /\ prompt.outcome.value > Len(Recorded)
    /\ LastRow[4] = Str(1)
    /\ LastRow[5] = Str(0)

\* C29: in every appended row session_wall_seconds is at least the sum of the
\* per-question durations.
C29_WallCoversDurations ==
    [][csv_file' # csv_file =>
          /\ IsIntText(NewRow[2])
          /\ DurationsOk(NewRow[6])
          /\ IntOf(NewRow[2]) >= SumSeq(Durations(NewRow[6]))]_vars

\* a row has been written for a session of two full-length questions, ended
\* while a third timer ran
C29_Witness ==
    /\ pc = "done"
    /\ last_op = "logged"
    /\ Len(Recorded) = 2
    /\ SumSeq(Recorded) >= 2 * session.duration_seconds
    /\ IntOf(LastRow[2]) > SumSeq(Recorded)

\* C30: between the handlers of the GUI, beep_played of a question is True
\* exactly when its elapsed_seconds exceeds max_time_per_question * 60, so
\* each save writes 'Time Exceeded Alert: Yes' for exactly the questions
\* whose timer value exceeds the limit.
C30_ExceededFlag ==
    /\ [](program = "gui" =>
             \A q \in Questions :
                 question_data[q].beep_played <=> Elapsed(q) > Limit)
    /\ [][text_file' # text_file =>
             \A q \in Questions :
                 text_file'[Len(text_file) + q].beep_alert =
                     IF Elapsed(q) > Limit THEN "Yes" ELSE "No"]_vars

\* a question paused and resumed beyond the limit has been saved with the
\* alert, next to one that has not been timed
C30_Witness ==
    /\ halted_by[1] = "resumed"
    /\ Elapsed(1) > Limit
    /\ Elapsed(2) = 0
    /\ SavesIn(text_file) >= 1
    /\ LastSave(text_file)[1].beep_alert = "Yes"
    /\ LastSave(text_file)[2].beep_alert = "No"

====
